---- MODULE Spec2Model ----
(***************************************************************************)
(* Model of src/scripts/dragevent.js: the drag initiator (dragging() and   *)
(* the two document-level fallback mousedown listeners) and the invocation *)
(* bridge (window.__API__INVOKE / window.invoke).                          *)
(*                                                                         *)
(* A page is single-threaded: every listener runs to completion, so one    *)
(* action is the whole dispatch of one DOM event through every listener    *)
(* registered for it, in registration order, along the bubbling path       *)
(* target -> drag region -> document -> window.                            *)
(***************************************************************************)
EXTENDS Integers, Sequences, FiniteSets, TLC

\* ---- bounds ----
MaxCalls == 2
MaxLoads == 2
MaxSetups == 2

VARIABLES
    docMousedown,   \* listeners registered on document for "mousedown", in order
    regionMousedown,\* listeners registered on the drag region for "mousedown"
    winMousemove,   \* listeners registered on window for "mousemove"
    winMouseup,     \* listeners registered on window for "mouseup"
    isDragging,     \* isDragging[c]: the flag of the c-th dragging() closure
    setupRuns,      \* number of dragging() calls made so far
    hasRegion,      \* the page has an element matching [data-taoket-drag-region]
    installed,      \* window.__API__INVOKE exists
    nextId,         \* the bridge closure's counter (0: closure not created yet)
    ipc,            \* window.ipc is present
    calls,          \* log of the invoke calls made, in order
    outbox,         \* the texts handed to window.ipc.postMessage, in order
    last            \* the operation that ran last: its event, the flags before
                    \* it, the number of invoke calls it made, what it did to
                    \* the event

vars == <<docMousedown, regionMousedown, winMousemove, winMouseup, isDragging,
          setupRuns, hasRegion, installed, nextId, ipc, calls, outbox, last>>

\* ---- JavaScript values and JSON.stringify(v, null, 2) ----

\* A JS string is a sequence of characters.
Chr(s) == [kind |-> "string", chars |-> s]
Num(n) == [kind |-> "number", n |-> n]
Bool(b) == [kind |-> "boolean", b |-> b]
Null == [kind |-> "null"]
\* An object literal: its members <<key, value>> in insertion order.
Obj(members) == [kind |-> "object", members |-> members]

Move == <<"M", "o", "v", "e">>
QuoteName == <<"q", "\"">>
BackslashText == <<"a", "\\", "b">>

\* What the page's own scripts pass to invoke: <<event, value>>.
CallerArgs ==
    {<<Move, Bool(TRUE)>>, <<QuoteName, Num(12)>>, <<Move, Chr(BackslashText)>>}

NL == "\n"
SP == " "
IND == "  "
Whitespace == {NL, SP, IND}

Digit(d) ==
    CASE d = 0 -> "0" [] d = 1 -> "1" [] d = 2 -> "2" [] d = 3 -> "3"
      [] d = 4 -> "4" [] d = 5 -> "5" [] d = 6 -> "6" [] d = 7 -> "7"
      [] d = 8 -> "8" [] d = 9 -> "9"

RECURSIVE NumText(_)
NumText(n) == IF n < 10 THEN Digit(n) ELSE NumText(n \div 10) \o Digit(n % 10)

EscChar(c) ==
    IF c = "\"" THEN "\\\"" ELSE IF c = "\\" THEN "\\\\" ELSE c

RECURSIVE Esc(_)
Esc(s) == IF s = <<>> THEN "" ELSE EscChar(Head(s)) \o Esc(Tail(s))

Quote(s) == "\"" \o Esc(s) \o "\""

\* A property name of an object literal: an identifier, nothing to escape.
Key(k) == "\"" \o k \o "\""

RECURSIVE Indent(_)
Indent(depth) == IF depth = 0 THEN <<>> ELSE <<IND>> \o Indent(depth - 1)

RECURSIVE Stringify(_, _)
RECURSIVE Members(_, _)
Members(ms, depth) ==
    IF ms = <<>> THEN <<>>
    ELSE <<NL>> \o Indent(depth) \o <<Key(Head(ms)[1]), ":", SP>>
         \o Stringify(Head(ms)[2], depth)
         \o (IF Len(ms) > 1 THEN <<",">> ELSE <<>>)
         \o Members(Tail(ms), depth)

Stringify(v, depth) ==
    CASE v.kind = "boolean" -> <<IF v.b THEN "true" ELSE "false">>
      [] v.kind = "number" -> <<NumText(v.n)>>
      [] v.kind = "string" -> <<Quote(v.chars)>>
      [] v.kind = "null" -> <<"null">>
      [] v.kind = "object" ->
            IF v.members = <<>> THEN <<"{}">>
            ELSE <<"{">> \o Members(v.members, depth + 1)
                 \o <<NL>> \o Indent(depth) \o <<"}">>

\* Faulty variant: the envelope without its payload wrapper.
EnvelopeBare(id, event, value) ==
    Obj(<< <<"id", Num(id)>>,
           <<"event", Obj(<< <<"type", Chr(event)>>, <<"value", value>> >>)>> >>)

\* { payload: { id, event: { type: event, value } } }
Envelope(id, event, value) ==
    Obj(<< <<"payload",
             Obj(<< <<"id", Num(id)>>,
                    <<"event",
                      Obj(<< <<"type", Chr(event)>>,
                             <<"value", value>> >>)>> >>)>> >>)

\* ---- the invocation bridge (lines 57-73) ----

InitialNextId == 1

\* Faulty variant: the counter is read and not advanced.
PostIncrementStuck(n) == n

\* nextId++ leaves the counter one higher than the id it yields.
PostIncrement(n) == n + 1

\* Faulty variant: the message is posted a second time.
PostMessageRetry(s, message) ==
    IF s.ipc
    THEN [s |-> [s EXCEPT !.outbox = @ \o <<message, message>>], threw |-> FALSE]
    ELSE [s |-> s, threw |-> TRUE]

\* window.ipc.postMessage(message): with window.ipc absent the member access
\* throws a TypeError and nothing is handed to the transport.
PostMessage(s, message) ==
    IF s.ipc
    THEN [s |-> [s EXCEPT !.outbox = Append(@, message)], threw |-> FALSE]
    ELSE [s |-> s, threw |-> TRUE]

\* Faulty variant: the counter is advanced once the message is posted, so a
\* call whose post fails leaves it alone.
ExecutorCountsPosted(s, event, value) ==
    LET id == s.nextId
        message == Stringify(Envelope(id, event, value), 0)
        sent == PostMessage(s, message)
    IN  [s |-> IF sent.threw THEN sent.s
               ELSE [sent.s EXCEPT !.nextId = PostIncrement(id)],
         id |-> id, threw |-> sent.threw, settled |-> "pending"]

\* The executor passed to new Promise: takes the id, builds the text, posts it.
\* It uses neither resolve nor reject.
Executor(s, event, value) ==
    LET id == s.nextId
        s1 == [s EXCEPT !.nextId = PostIncrement(id)]
        message == Stringify(Envelope(id, event, value), 0)
        sent == PostMessage(s1, message)
    IN  [s |-> sent.s, id |-> id, threw |-> sent.threw, settled |-> "pending"]

\* Faulty variant: the executor resolves the promise once the message is posted.
PromiseStateResolved(ran) ==
    IF ran.threw THEN "rejected" ELSE "fulfilled"

\* new Promise(executor): an exception thrown by the executor is caught by the
\* constructor and rejects the promise, unless the executor settled it first.
PromiseState(ran) ==
    IF ran.settled # "pending" THEN ran.settled
    ELSE IF ran.threw THEN "rejected" ELSE "pending"

\* Faulty variant: invoke posts without a promise around it, so the error escapes.
EscapesUncaught(ran) == ran.threw

\* Whether the exception of the executor leaves the invoke call itself: the
\* executor runs inside new Promise, which catches it.
Escapes(ran) == FALSE

\* invoke(event, value) as called by `by`; logs the call.
invoke(s, event, value, by) ==
    LET ran == Executor(s, event, value)
        call == [id |-> ran.id, type |-> event, value |-> value, by |-> by,
                 ipc |-> s.ipc,
                 posts |-> Len(ran.s.outbox) - Len(s.outbox),
                 promise |-> PromiseState(ran),
                 reason |-> IF ran.threw THEN "TypeError" ELSE "none",
                 threw |-> Escapes(ran)]
    IN  [s |-> [ran.s EXCEPT !.calls = Append(@, call)], threw |-> call.threw]

\* Faulty variant: the install IIFE without its presence check.
InstallBridgeAgain(b) == [installed |-> TRUE, nextId |-> InitialNextId]

\* The install IIFE: a no-op when window.__API__INVOKE exists.
InstallBridge(b) ==
    IF b.installed THEN b
    ELSE [installed |-> TRUE, nextId |-> InitialNextId]

\* ---- the drag initiator (lines 1-55) ----

By(listener, n) == [listener |-> listener, n |-> n]

\* Faulty variant: the press listener without its button check.
PressListenerAnyButton(s, c, e) ==
    LET s1 == [s EXCEPT !.isDragging[c] = TRUE]
        r == invoke(s1, Move, Bool(TRUE), By("press", c))
    IN  IF r.threw THEN r.s
        ELSE [r.s EXCEPT !.defaultPrevented = TRUE, !.stopProp = TRUE]

\* Faulty variant: the press listener does not stop the propagation.
PressListenerNoStop(s, c, e) ==
    IF e.button # 0 THEN s
    ELSE LET s1 == [s EXCEPT !.isDragging[c] = TRUE]
             r == invoke(s1, Move, Bool(TRUE), By("press", c))
         IN  IF r.threw THEN r.s
             ELSE [r.s EXCEPT !.defaultPrevented = TRUE]

\* Region press listener of closure c (lines 7-15).
PressListener(s, c, e) ==
    IF e.button # 0 THEN s
    ELSE LET s1 == [s EXCEPT !.isDragging[c] = TRUE]
             r == invoke(s1, Move, Bool(TRUE), By("press", c))
         IN  IF r.threw THEN r.s
             ELSE [r.s EXCEPT !.defaultPrevented = TRUE, !.stopProp = TRUE]

\* Faulty variant: the mousemove listener reports the drag in progress.
MoveListenerSignals(s, c) ==
    IF ~s.isDragging[c] THEN s
    ELSE invoke(s, Move, Bool(TRUE), By("move", c)).s

\* Window mousemove listener of closure c (lines 17-21): the deltas it
\* computes are locals that nothing reads.
MoveListener(s, c) == s

\* Faulty variant: the release listener forgets to clear the flag.
ReleaseListenerKeepsFlag(s, c) ==
    IF ~s.isDragging[c] THEN s
    ELSE invoke(s, Move, Bool(FALSE), By("release", c)).s

\* Faulty variant: the release listener without its session check.
ReleaseListenerUnguarded(s, c) ==
    LET s1 == [s EXCEPT !.isDragging[c] = FALSE]
    IN  invoke(s1, Move, Bool(FALSE), By("release", c)).s

\* Faulty variant: the session check of the release listener is inverted.
ReleaseListenerInverted(s, c) ==
    IF s.isDragging[c] THEN s
    ELSE invoke(s, Move, Bool(FALSE), By("release", c)).s

\* Window mouseup listener of closure c (lines 23-27).
ReleaseListener(s, c) ==
    IF ~s.isDragging[c] THEN s
    ELSE LET s1 == [s EXCEPT !.isDragging[c] = FALSE]
         IN  invoke(s1, Move, Bool(FALSE), By("release", c)).s

\* Faulty variant: the fallback listener stops propagation, not immediate propagation.
FallbackListenerNoStop(s, n, e) ==
    IF e.target.marker /\ e.detail \in {1, 2}
    THEN LET s1 == [s EXCEPT !.defaultPrevented = TRUE, !.stopProp = TRUE]
         IN  invoke(s1, Move, Bool(TRUE), By("fallback", n)).s
    ELSE s

\* Faulty variant: the fallback listener starts the sessions as a press does.
FallbackListenerStartsSession(s, n, e) ==
    IF e.target.marker /\ e.detail \in {1, 2}
    THEN LET s1 == [s EXCEPT !.defaultPrevented = TRUE, !.stopImm = TRUE,
                             !.stopProp = TRUE,
                             !.isDragging = [c \in DOMAIN @ |-> TRUE]]
         IN  invoke(s1, Move, Bool(TRUE), By("fallback", n)).s
    ELSE s

\* Faulty variant: the fallback listener with the button check of the press
\* listener.
FallbackListenerPrimaryOnly(s, n, e) ==
    IF e.button = 0 /\ e.target.marker /\ e.detail \in {1, 2}
    THEN LET s1 == [s EXCEPT !.defaultPrevented = TRUE, !.stopImm = TRUE,
                             !.stopProp = TRUE]
         IN  invoke(s1, Move, Bool(TRUE), By("fallback", n)).s
    ELSE s

\* Document fallback mousedown listener, the n-th registered (lines 34-41 and
\* 47-54 are the same text).
FallbackListener(s, n, e) ==
    IF e.target.marker /\ e.detail \in {1, 2}
    THEN LET s1 == [s EXCEPT !.defaultPrevented = TRUE, !.stopImm = TRUE,
                             !.stopProp = TRUE]
         IN  invoke(s1, Move, Bool(TRUE), By("fallback", n)).s
    ELSE s

\* Listeners of one target run in registration order; all of them run unless
\* one calls stopImmediatePropagation.
RECURSIVE RunRegion(_, _, _)
RunRegion(s, ls, e) ==
    IF ls = <<>> \/ s.stopImm THEN s
    ELSE RunRegion(PressListener(s, Head(ls), e), Tail(ls), e)

RECURSIVE RunDocument(_, _, _, _)
RunDocument(s, ls, n, e) ==
    IF ls = <<>> \/ s.stopImm THEN s
    ELSE RunDocument(FallbackListener(s, n, e), Tail(ls), n + 1, e)

RECURSIVE RunMove(_, _)
RunMove(s, ls) ==
    IF ls = <<>> THEN s ELSE RunMove(MoveListener(s, Head(ls)), Tail(ls))

RECURSIVE RunRelease(_, _)
RunRelease(s, ls) ==
    IF ls = <<>> THEN s ELSE RunRelease(ReleaseListener(s, Head(ls)), Tail(ls))

\* A mousedown bubbles from its target through the drag region (when the
\* target is the region or inside it) to the document, unless stopped.
DispatchMousedown(s, e) ==
    LET s1 == IF e.target.inRegion THEN RunRegion(s, regionMousedown, e) ELSE s
    IN  IF s1.stopProp THEN s1 ELSE RunDocument(s1, docMousedown, 1, e)

\* ---- events and the state threaded through one dispatch ----

Buttons == {0, 1, 2}
Details == {1, 2, 3}
\* inRegion: the target is the drag region or inside it; marker: the target
\* itself carries data-taocket-drag-region.
Targets == [inRegion : BOOLEAN, marker : BOOLEAN]
NoTarget == [inRegion |-> FALSE, marker |-> FALSE]
MouseEvent(b, d, t) == [button |-> b, detail |-> d, target |-> t]
NoEvent == MouseEvent(0, 0, NoTarget)

Begin ==
    [nextId |-> nextId, ipc |-> ipc, calls |-> calls, outbox |-> outbox,
     isDragging |-> isDragging,
     defaultPrevented |-> FALSE, stopProp |-> FALSE, stopImm |-> FALSE]

Commit(s, op, e) ==
    /\ Len(s.calls) <= MaxCalls
    /\ nextId' = s.nextId
    /\ calls' = s.calls
    /\ outbox' = s.outbox
    /\ isDragging' = s.isDragging
    /\ last' = [op |-> op, e |-> e, was |-> isDragging,
                made |-> Len(s.calls) - Len(calls),
                defaultPrevented |-> s.defaultPrevented,
                stopProp |-> s.stopProp, stopImm |-> s.stopImm]

Ran(op) ==
    [op |-> op, e |-> NoEvent, was |-> isDragging, made |-> 0,
     defaultPrevented |-> FALSE, stopProp |-> FALSE, stopImm |-> FALSE]

Loads == Len(docMousedown) \div 2

Init ==
    /\ docMousedown = <<>>
    /\ regionMousedown = <<>>
    /\ winMousemove = <<>>
    /\ winMouseup = <<>>
    /\ isDragging = <<>>
    /\ setupRuns = 0
    /\ hasRegion \in BOOLEAN
    /\ installed = FALSE
    /\ nextId = 0
    /\ ipc \in BOOLEAN
    /\ calls = <<>>
    /\ outbox = <<>>
    /\ last = Ran("start")

\* The script runs top to bottom: it declares dragging, registers the two
\* fallback listeners and runs the install IIFE.
LoadScript ==
    /\ Loads < MaxLoads
    /\ docMousedown' = docMousedown \o <<"fallback", "fallback">>
    /\ LET b == InstallBridge([installed |-> installed, nextId |-> nextId])
       IN  installed' = b.installed /\ nextId' = b.nextId
    /\ last' = Ran("load")
    /\ UNCHANGED <<regionMousedown, winMousemove, winMouseup, isDragging,
                   setupRuns, hasRegion, ipc, calls, outbox>>

\* Faulty variant: only the region listener is behind the check for a region.
draggingUnchecked ==
    /\ Loads > 0
    /\ setupRuns < MaxSetups
    /\ setupRuns' = setupRuns + 1
    /\ LET c == Len(isDragging) + 1
       IN  /\ isDragging' = Append(isDragging, FALSE)
           /\ regionMousedown' =
                 IF hasRegion THEN Append(regionMousedown, c) ELSE regionMousedown
           /\ winMousemove' = Append(winMousemove, c)
           /\ winMouseup' = Append(winMouseup, c)
    /\ last' = Ran("dragging")
    /\ UNCHANGED <<docMousedown, hasRegion, installed, nextId, ipc, calls, outbox>>

\* dragging() (lines 1-29).
dragging ==
    /\ Loads > 0
    /\ setupRuns < MaxSetups
    /\ setupRuns' = setupRuns + 1
    /\ IF hasRegion
       THEN LET c == Len(isDragging) + 1
            IN  /\ isDragging' = Append(isDragging, FALSE)
                /\ regionMousedown' = Append(regionMousedown, c)
                /\ winMousemove' = Append(winMousemove, c)
                /\ winMouseup' = Append(winMouseup, c)
       ELSE UNCHANGED <<isDragging, regionMousedown, winMousemove, winMouseup>>
    /\ last' = Ran("dragging")
    /\ UNCHANGED <<docMousedown, hasRegion, installed, nextId, ipc, calls, outbox>>

\* The host provides or withdraws window.ipc.
TransportChange ==
    /\ ipc' = ~ipc
    /\ last' = Ran("transport")
    /\ UNCHANGED <<docMousedown, regionMousedown, winMousemove, winMouseup,
                   isDragging, setupRuns, hasRegion, installed, nextId, calls,
                   outbox>>

\* Some script of the page calls window.invoke(event, value).
CallInvoke ==
    /\ installed
    /\ \E a \in CallerArgs :
          Commit(invoke(Begin, a[1], a[2], By("caller", 0)).s, "invoke", NoEvent)
    /\ UNCHANGED <<docMousedown, regionMousedown, winMousemove, winMouseup,
                   setupRuns, hasRegion, installed, ipc>>

Mousedown ==
    /\ \E b \in Buttons, d \in Details, t \in Targets :
          /\ t.inRegion => hasRegion
          /\ LET e == MouseEvent(b, d, t)
             IN  Commit(DispatchMousedown(Begin, e), "mousedown", e)
    /\ UNCHANGED <<docMousedown, regionMousedown, winMousemove, winMouseup,
                   setupRuns, hasRegion, installed, ipc>>

Mousemove ==
    /\ Commit(RunMove(Begin, winMousemove), "mousemove", NoEvent)
    /\ UNCHANGED <<docMousedown, regionMousedown, winMousemove, winMouseup,
                   setupRuns, hasRegion, installed, ipc>>

Mouseup ==
    /\ Commit(RunRelease(Begin, winMouseup), "mouseup", NoEvent)
    /\ UNCHANGED <<docMousedown, regionMousedown, winMousemove, winMouseup,
                   setupRuns, hasRegion, installed, ipc>>

Next ==
    \/ LoadScript
    \/ dragging
    \/ TransportChange
    \/ CallInvoke
    \/ Mousedown
    \/ Mousemove
    \/ Mouseup

Spec == Init /\ [][Next]_vars

TypeOK ==
    /\ nextId \in 0..(MaxCalls + 1)
    /\ Len(calls) <= MaxCalls
    /\ Len(isDragging) <= MaxSetups

\* ---- what the claims speak about ----

\* The invoke calls made by the operation that ran last.
LastCalls == SubSeq(calls, Len(calls) - last.made + 1, Len(calls))

IsBy(call, listener) == call.by.listener = listener

\* The calls made by the press and release listeners of closure c, in order.
SessionCalls(c) ==
    SelectSeq(calls, LAMBDA k : k.by.n = c /\ k.by.listener \in {"press", "release"})

CountIn(seq, P(_)) == Cardinality({i \in DOMAIN seq : P(seq[i])})

IsMove(call, b) == call.type = Move /\ call.value = Bool(b)

\* C1: for every sequence of presses on the drag region and releases, the
\* session flag of a dragging() closure is true exactly from a primary press
\* to the next release, and the calls of its press and release listeners are
\* "Move"/true for a press and "Move"/false for a release, a release call
\* always coming directly after the press call it is matched with.
C1_SessionAlternates ==
    \A c \in DOMAIN isDragging :
        LET d == SessionCalls(c)
        IN  /\ \A i \in DOMAIN d :
                  /\ IsBy(d[i], "press") => IsMove(d[i], TRUE)
                  /\ IsBy(d[i], "release") =>
                        /\ IsMove(d[i], FALSE)
                        /\ i > 1
                        /\ IsBy(d[i - 1], "press")
            /\ isDragging[c] = (d # <<>> /\ IsBy(d[Len(d)], "press"))

\* A press and its release have happened with dragging() set up once: the
\* flag went false, true, false and the calls are "Move"/true, "Move"/false.
C1_Witness ==
    /\ setupRuns = 1
    /\ Len(isDragging) = 1
    /\ ~isDragging[1]
    /\ last.op = "mouseup"
    /\ last.was = <<TRUE>>
    /\ Len(SessionCalls(1)) = 2

\* C2: the k-th invoke call of the process gets request id k, whatever its
\* event name and value and however often the script was loaded: the ids are
\* distinct, strictly increasing, start at 1 and go up by one.
C2_IdsSequential ==
    /\ \A i \in DOMAIN calls : calls[i].id = i
    /\ \A i, j \in DOMAIN calls : i < j => calls[i].id < calls[j].id

C2_Witness ==
    /\ Len(calls) >= 2
    /\ calls[1].type # calls[2].type
    /\ calls[1].value # calls[2].value

\* C3: running the script again when window.__API__INVOKE exists leaves the
\* bridge as it is: it stays installed and its counter keeps the value the
\* calls made so far have brought it to.
C3_SecondInstallNoOp ==
    Loads >= 2 =>
        /\ installed
        /\ nextId = 1 + Len(calls)

\* The script has just run a second time after at least one call was made.
C3_Witness ==
    /\ last.op = "load"
    /\ Loads = 2
    /\ Len(calls) >= 1
    /\ nextId = 1 + Len(calls)

\* The calls the fallback listeners made for the event dispatched last.
FallbackCalls == SelectSeq(LastCalls, LAMBDA k : IsBy(k, "fallback"))

\* The press listeners were reached and stopped the propagation of e.
StoppedAtRegion(e) ==
    e.button = 0 /\ e.target.inRegion /\ regionMousedown # <<>>

QualifiesForFallback ==
    /\ last.op = "mousedown"
    /\ Loads >= 1
    /\ last.e.target.marker
    /\ last.e.detail \in {1, 2}

\* C4 as stated: every mousedown on a target with the fallback marker and
\* click detail 1 or 2 makes the fallback listeners call invoke("Move", true)
\* exactly once.
C4_Original ==
    QualifiesForFallback =>
        /\ Len(FallbackCalls) = 1
        /\ IsMove(FallbackCalls[1], TRUE)

\* C4 amended: such a mousedown makes the fallback listeners call
\* invoke("Move", true) exactly once, by the listener registered first, which
\* stops immediate propagation, whenever the event reaches the document; a
\* primary-button press on or inside the drag region is stopped by the press
\* listener before it gets there, and the fallback listeners then make no call.
C4_FallbackOnceIfReached ==
    QualifiesForFallback =>
        IF StoppedAtRegion(last.e)
        THEN FallbackCalls = <<>> /\ ~last.stopImm
        ELSE /\ Len(FallbackCalls) = 1
             /\ IsMove(FallbackCalls[1], TRUE)
             /\ FallbackCalls[1].by.n = 1
             /\ last.stopImm
             /\ last.defaultPrevented

\* A double click on a marked target with the script loaded twice: four
\* fallback listeners are registered and one call was made.
C4_Witness ==
    /\ QualifiesForFallback
    /\ Len(docMousedown) = 4
    /\ last.e.detail = 2
    /\ ~StoppedAtRegion(last.e)
    /\ Len(FallbackCalls) = 1
    /\ last.made = 1

NonPrimaryOnRegion ==
    /\ last.op = "mousedown"
    /\ last.e.button # 0
    /\ last.e.target.inRegion
    /\ regionMousedown # <<>>

NoPressCall == \A i \in DOMAIN LastCalls : ~IsBy(LastCalls[i], "press")

\* C5 as stated: after a non-primary mousedown on the drag region the press
\* listener has made no call and the session flag is false.
C5_Original ==
    NonPrimaryOnRegion =>
        /\ NoPressCall
        /\ \A c \in DOMAIN isDragging : ~isDragging[c]

\* C5 amended: a non-primary mousedown on the drag region makes the press
\* listener call nothing and leaves the session flag as it was (false when no
\* session was active, still true when one was).
C5_NonPrimaryLeavesFlag ==
    NonPrimaryOnRegion =>
        /\ NoPressCall
        /\ isDragging = last.was

\* A right-button press on the region with no session active.
C5_Witness ==
    /\ NonPrimaryOnRegion
    /\ last.e.button = 2
    /\ ~last.e.target.marker
    /\ last.was = <<FALSE>>
    /\ isDragging = <<FALSE>>
    /\ last.made = 0

\* C6 as stated: the number of messages posted equals the number of invoke
\* calls, each call posting exactly one.
C6_Original ==
    /\ Len(outbox) = Len(calls)
    /\ \A i \in DOMAIN calls : calls[i].posts = 1

\* C6 amended: an invoke call posts exactly one message when window.ipc is
\* present and none when it is absent (no retry, batching or splitting), so
\* the number of posted messages equals the number of calls made while the
\* transport was present.
C6_OnePostPerServedCall ==
    /\ \A i \in DOMAIN calls : calls[i].posts = IF calls[i].ipc THEN 1 ELSE 0
    /\ Len(outbox) = CountIn(calls, LAMBDA k : k.ipc)

\* Two calls were served by the transport.
C6_Witness ==
    /\ Len(calls) = 2
    /\ Len(outbox) = 2
    /\ outbox[1] # outbox[2]

\* C7 as stated: whatever happens, the transport failing included, the
\* promise invoke returns is pending.
C7_Original ==
    \A i \in DOMAIN calls : calls[i].promise = "pending"

\* C7 amended: the promise invoke returns is never resolved; it is pending
\* exactly when the transport call returned, and rejected (by the Promise
\* constructor, with the error thrown in the executor) exactly when the
\* transport call threw.
C7_PendingUnlessThrown ==
    \A i \in DOMAIN calls :
        /\ calls[i].promise # "fulfilled"
        /\ calls[i].promise = "pending" <=> calls[i].posts = 1
        /\ calls[i].promise = "rejected" <=> calls[i].reason = "TypeError"

\* One call whose message was posted and one made without a transport.
C7_Witness ==
    /\ Len(calls) = 2
    /\ calls[1].promise = "pending"
    /\ calls[2].promise = "rejected"

\* C8 as stated: with the transport absent the error of the post-message
\* call leaves invoke as an exception thrown to its caller.
C8_Original ==
    \A i \in DOMAIN calls : ~calls[i].ipc => calls[i].threw

\* C8 amended: with the transport absent invoke does not throw; it returns a
\* promise rejected with the error the post-message call raised, and its
\* caller runs on: a press listener still prevents the default action and
\* stops the propagation.
C8_ErrorRejectsPromise ==
    /\ \A i \in DOMAIN calls :
          ~calls[i].ipc =>
              /\ ~calls[i].threw
              /\ calls[i].promise = "rejected"
              /\ calls[i].reason = "TypeError"
              /\ calls[i].posts = 0
    /\ (last.op = "mousedown" /\ ~NoPressCall) =>
          last.stopProp /\ last.defaultPrevented

\* A primary press on the region with the transport absent.
C8_Witness ==
    /\ last.op = "mousedown"
    /\ last.made = 1
    /\ IsBy(LastCalls[1], "press")
    /\ ~LastCalls[1].ipc
    /\ LastCalls[1].promise = "rejected"
    /\ last.stopProp

StripWhitespace(text) == SelectSeq(text, LAMBDA tok : tok \notin Whitespace)

\* The JSON text of the event names and values the model draws from.
NameText(name) ==
    CASE name = Move -> "\"Move\""
      [] name = QuoteName -> "\"q\\\"\""

ValueText(value) ==
    CASE value = Bool(TRUE) -> "true"
      [] value = Bool(FALSE) -> "false"
      [] value = Num(12) -> "12"
      [] value = Chr(BackslashText) -> "\"a\\\\b\""

\* The message the i-th call posted: the j-th of the outbox, j counting the
\* calls up to i that posted.
PostedBy(i) ==
    outbox[CountIn(SubSeq(calls, 1, i), LAMBDA k : k.posts > 0)]

\* C9: the k-th invoke(e, v) hands the transport, whitespace aside, the text
\* {"payload":{"id":k,"event":{"type":e,"value":v}}} and nothing else; the
\* first call invoke("Move", true) hands it
\* {"payload":{"id":1,"event":{"type":"Move","value":true}}}.
C9_Envelope ==
    /\ \A i \in DOMAIN calls :
          calls[i].posts > 0 =>
              StripWhitespace(PostedBy(i)) =
                  <<"{", "\"payload\"", ":", "{", "\"id\"", ":", ToString(i), ",",
                    "\"event\"", ":", "{", "\"type\"", ":", NameText(calls[i].type),
                    ",", "\"value\"", ":", ValueText(calls[i].value),
                    "}", "}", "}">>
    /\ (calls # <<>> /\ IsMove(calls[1], TRUE) /\ calls[1].posts > 0) =>
          StripWhitespace(outbox[1]) =
              <<"{", "\"payload\"", ":", "{", "\"id\"", ":", "1", ",",
                "\"event\"", ":", "{", "\"type\"", ":", "\"Move\"", ",",
                "\"value\"", ":", "true", "}", "}", "}">>

\* The first call was invoke("Move", true) and the second one, with a name
\* and a value that need escaping, was posted too.
C9_Witness ==
    /\ Len(calls) = 2
    /\ Len(outbox) = 2
    /\ IsMove(calls[1], TRUE)
    /\ calls[2].type = QuoteName

ReleaseCalls(c) ==
    SelectSeq(LastCalls, LAMBDA k : IsBy(k, "release") /\ k.by.n = c)

\* C10: a mouseup reaching a release listener whose session is not active
\* does nothing (no call, flag still false); one reaching a release listener
\* whose session is active clears the flag and makes exactly one
\* invoke("Move", false) call; a mouseup makes no other call.
C10_Release ==
    last.op = "mouseup" =>
        /\ \A c \in DOMAIN isDragging :
              /\ ~isDragging[c]
              /\ Len(ReleaseCalls(c)) = IF last.was[c] THEN 1 ELSE 0
              /\ \A i \in DOMAIN ReleaseCalls(c) : IsMove(ReleaseCalls(c)[i], FALSE)
        /\ \A i \in DOMAIN LastCalls : IsBy(LastCalls[i], "release")
        /\ (\A c \in DOMAIN last.was : ~last.was[c]) =>
              last.made = 0 /\ isDragging = last.was

\* A mouseup with no session active, after the mouseup that ended a session
\* with its one "Move"/false call.
C10_Witness ==
    /\ last.op = "mouseup"
    /\ last.was = <<FALSE>>
    /\ last.made = 0
    /\ Len(calls) = 2
    /\ IsBy(calls[2], "release")
    /\ IsMove(calls[2], FALSE)

\* The session call of closure c that came last before the i-th call.
SessionCallsBefore(c, i) ==
    SelectSeq(SubSeq(calls, 1, i - 1),
              LAMBDA k : k.by.n = c /\ k.by.listener \in {"press", "release"})

OnlyFallbackHandled ==
    /\ last.op = "mousedown"
    /\ last.made > 0
    /\ \A i \in DOMAIN LastCalls : IsBy(LastCalls[i], "fallback")

\* C11: the fallback listener leaves every session flag as it was and only
\* ever calls invoke("Move", true); a mouseup makes a "Move"/false call only
\* for a session that a press listener call started and no release has ended
\* since, so a mouseup after a press that only the fallback listener handled
\* makes none.
C11_FallbackNoSession ==
    /\ OnlyFallbackHandled => isDragging = last.was
    /\ \A i \in DOMAIN calls :
          /\ IsBy(calls[i], "fallback") => IsMove(calls[i], TRUE)
          /\ IsBy(calls[i], "release") =>
                LET before == SessionCallsBefore(calls[i].by.n, i)
                IN  before # <<>> /\ IsBy(before[Len(before)], "press")
    /\ (last.op = "mouseup" /\ calls # <<>>
            /\ \A i \in DOMAIN calls : IsBy(calls[i], "fallback")) =>
          last.made = 0

\* A mouseup reached a release listener after a press that only the fallback
\* listener handled: no call was made for it.
C11_Witness ==
    /\ last.op = "mouseup"
    /\ winMouseup # <<>>
    /\ last.made = 0
    /\ Len(calls) = 1
    /\ IsBy(calls[1], "fallback")
    /\ isDragging = <<FALSE>>

NonPrimaryOnMarkedRegion ==
    /\ NonPrimaryOnRegion
    /\ last.e.target.marker
    /\ last.e.detail \in {1, 2}

\* C12: a non-primary press with click detail 1 or 2 on a target that is on
\* the drag region and carries the fallback marker is let through by the
\* press listener and taken by the fallback listener: exactly one call,
\* invoke("Move", true) by the first fallback listener, and the session flags
\* stay as they were.
C12_NonPrimaryTakenByFallback ==
    NonPrimaryOnMarkedRegion =>
        /\ last.made = 1
        /\ IsBy(LastCalls[1], "fallback")
        /\ LastCalls[1].by.n = 1
        /\ IsMove(LastCalls[1], TRUE)
        /\ isDragging = last.was

\* A middle-button double click on the marked drag region.
C12_Witness ==
    /\ NonPrimaryOnMarkedRegion
    /\ last.e.button = 1
    /\ last.e.detail = 2
    /\ last.made = 1
    /\ isDragging = <<FALSE>>

IsListenerCall(call) == ~IsBy(call, "caller")

\* C13: on a page without a drag region dragging() registers nothing, the two
\* fallback listeners of each script run are registered all the same, no
\* listener ever calls invoke("Move", false), and every call a listener makes
\* is invoke("Move", true) by a fallback listener for a mousedown on a marked
\* target with click detail 1 or 2.
C13_NoRegionNoSession ==
    ~hasRegion =>
        /\ regionMousedown = <<>>
        /\ winMousemove = <<>>
        /\ winMouseup = <<>>
        /\ isDragging = <<>>
        /\ Len(docMousedown) = 2 * Loads
        /\ (setupRuns > 0 => Loads > 0)
        /\ \A i \in DOMAIN calls :
              IsListenerCall(calls[i]) =>
                  IsBy(calls[i], "fallback") /\ IsMove(calls[i], TRUE)
        /\ (last.op = "mousedown" /\ last.made > 0) =>
              last.e.target.marker /\ last.e.detail \in {1, 2}
        /\ last.op \in {"mouseup", "mousemove"} => last.made = 0

\* dragging() ran on a page without a region, a fallback call was made and a
\* mouseup followed.
C13_Witness ==
    /\ ~hasRegion
    /\ setupRuns >= 1
    /\ last.op = "mouseup"
    /\ Len(calls) >= 1
    /\ IsBy(calls[Len(calls)], "fallback")

\* C14: a mousemove makes no invoke call and leaves every session flag as it
\* was, with or without a session active.
C14_MousemoveSilent ==
    last.op = "mousemove" =>
        /\ last.made = 0
        /\ isDragging = last.was
        /\ ~last.defaultPrevented
        /\ ~last.stopProp

\* A mousemove reached the mousemove listener while a session was active.
C14_Witness ==
    /\ last.op = "mousemove"
    /\ winMousemove # <<>>
    /\ last.was = <<TRUE>>
    /\ isDragging = <<TRUE>>

IsPointerEvent == last.op \in {"mousedown", "mousemove", "mouseup"}

\* C15: with dragging() set up at most once, one DOM event makes at most one
\* invoke call over all listeners, whatever its button, click detail and
\* target: a primary press that a press listener handles is stopped before
\* the document, and the first fallback listener that calls stops the others.
C15_OneCallPerEvent ==
    (setupRuns <= 1 /\ IsPointerEvent) =>
        /\ last.made <= 1
        /\ (last.op = "mousedown" /\ StoppedAtRegion(last.e)) =>
              /\ last.stopProp
              /\ FallbackCalls = <<>>
              /\ last.made = 1
        /\ FallbackCalls # <<>> => (last.stopImm /\ last.made = 1)

\* A primary single click on a target that is on the drag region and carries
\* the fallback marker, with four fallback listeners registered: one call, by
\* the press listener.
C15_Witness ==
    /\ setupRuns = 1
    /\ Len(docMousedown) = 4
    /\ last.op = "mousedown"
    /\ last.e = MouseEvent(0, 1, [inRegion |-> TRUE, marker |-> TRUE])
    /\ last.made = 1
    /\ IsBy(LastCalls[1], "press")

IsListenerMove(call, b) == IsListenerCall(call) /\ IsMove(call, b)

PostedId(text) ==
    LET toks == StripWhitespace(text)
        at == CHOOSE i \in DOMAIN toks : toks[i] = "\"id\""
    IN  toks[at + 2]

\* The number a decimal text stands for, among the ids the counter can reach.
IdValue(tok) ==
    IF \E n \in 0..(MaxCalls + 2) : ToString(n) = tok
    THEN CHOOSE n \in 0..(MaxCalls + 2) : ToString(n) = tok
    ELSE -1

\* C17: a call whose transport call fails takes its request id all the same,
\* the next call gets the id after it, and the ids in the messages that
\* reach the transport are strictly increasing, each the id of the call that
\* posted it.
C17_FailedCallsConsumeIds ==
    /\ installed => nextId = 1 + Len(calls)
    /\ \A i \in DOMAIN calls :
          /\ calls[i].posts = 0 => (calls[i].id = i /\ ~calls[i].ipc)
          /\ calls[i].posts > 0 => IdValue(PostedId(PostedBy(i))) = calls[i].id
    /\ \A j, k \in DOMAIN outbox :
          j < k => 0 < IdValue(PostedId(outbox[j]))
                   /\ IdValue(PostedId(outbox[j])) < IdValue(PostedId(outbox[k]))

\* The first call failed and the second one posted the message with id 2.
C17_Witness ==
    /\ Len(calls) = 2
    /\ calls[1].posts = 0
    /\ calls[2].posts = 1
    /\ Len(outbox) = 1
    /\ PostedId(outbox[1]) = "2"

====
